---- MODULE Spec2Model ----
(***************************************************************************)
(* GeoTagger: the EXIF GPS codec (geoUtils: decimalToDms, dmsToDecimal,    *)
(* parseExifData, embedExifData) and the editing session around it (App,   *)
(* ExifEditor, MapView, ImageUploader).                                    *)
(*                                                                         *)
(* Numbers.  A JavaScript number holding an angle is modelled as an exact  *)
(* fixed-point value [nan, neg, w, f]: sign, whole degrees w and a         *)
(* fraction of f/Unit degree; NaN is a value of its own.  Unit is Fine     *)
(* steps per 1/10000 arc-second, so the rounding of decimalToDms and of    *)
(* toFixed(6) is visible.  Whole part and fraction are kept apart because  *)
(* 180 * Unit does not fit TLC's 32-bit integers.  Negative zero is        *)
(* identified with zero: the code only compares with >= 0, < 0 and !== 0,  *)
(* which cannot tell them apart.  An altitude is [nan, mm], mm a signed    *)
(* number of steps, Fine steps per centimetre.  Double rounding error      *)
(* (about 1e-14 degree) is not modelled.                                   *)
(***************************************************************************)
EXTENDS Integers, Sequences, FiniteSets, TLC

VARIABLES
    \* the editing session (App, ExifEditor)
    image,       \* App: image state, NoImage or [id, file, previewUrl, metadata]
    currentGps,  \* App: where the pin is
    mapCenter,   \* App: where the camera looks
    editor,      \* ExifEditor instance state, or NoEditor while unmounted
    readers,     \* FileReaders started by handleImageSelect, not yet loaded
    pending,     \* handleSaveExif calls waiting in their 100 ms delay
    nextId,      \* number of images / editor instances created so far
    \* the codec called directly (geoUtils' exported functions)
    src,         \* the data URL given to parseExifData
    rec,         \* parseExifData's outcome: the metadata record the caller holds
    encArg,      \* the position given to the last embedExifData call
    encOut,      \* what the last embedExifData call returned or threw
    \* the coordinate transform called directly
    angle,       \* a decimal degree value
    dms,         \* decimalToDms' result
    ref,         \* the hemisphere reference letter
    back         \* dmsToDecimal's result

sessionVars == <<image, currentGps, mapCenter, editor, readers, pending, nextId>>
codecVars == <<src, rec, encArg, encOut>>
dmsVars == <<angle, dms, ref, back>>
vars == <<sessionVars, codecVars, dmsVars>>

-----------------------------------------------------------------------------
(* Numbers *)

\* steps of the model's fixed point per 1/10000 arc-second
Fine == 10
\* decimalToDms: "4 decimal places precision" of the seconds
SecDen == 10000
\* fixed-point steps per degree, per arc-minute
Unit == 3600 * SecDen * Fine
PerMinute == Unit \div 60

D(neg, w, f) == [nan |-> FALSE, neg |-> neg /\ (w # 0 \/ f # 0), w |-> w, f |-> f]
Zero == D(FALSE, 0, 0)
NaN == [nan |-> TRUE, neg |-> FALSE, w |-> 0, f |-> 0]

\* a magnitude of `units` steps above w whole degrees, carried into the whole part
Carry(neg, w, units) == D(neg, w + (units \div Unit), units % Unit)

isNaN(x) == x.nan
\* Math.abs
MathAbs(x) == [x EXCEPT !.neg = FALSE]
\* x >= 0, x < 0, x !== 0 (all false, false, true on NaN)
GeZero(x) == ~x.nan /\ ~x.neg
LtZero(x) == ~x.nan /\ x.neg
NotZero(x) == x.nan \/ x.w # 0 \/ x.f # 0
\* x * -1
Negate(x) == IF x.nan THEN x ELSE D(~x.neg, x.w, x.f)

\* Math.round of n/d for n >= 0: halves go up
MathRound(n, d) == (2 * n + d) \div (2 * d)

\* a - b in steps, defined when the whole parts differ by at most 1
SignedW(x) == IF x.neg THEN -x.w ELSE x.w
SignedF(x) == IF x.neg THEN -x.f ELSE x.f
StepsApart(a, b) ==
    LET s == (SignedW(a) - SignedW(b)) * Unit + (SignedF(a) - SignedF(b))
    IN  IF s < 0 THEN -s ELSE s
\* |a - b| < tol steps, tol < Unit
Within(a, b, tol) ==
    /\ ~a.nan /\ ~b.nan
    /\ SignedW(a) - SignedW(b) \in {-1, 0, 1}
    /\ StepsApart(a, b) < tol

-----------------------------------------------------------------------------
(* geoUtils: the coordinate transform *)

\* Convert Decimal to DMS.  With absolute = w + f/Unit:
\*   minutesNotTruncated = f * 60 / Unit = f / PerMinute
\*   (minutesNotTruncated - minutes) * 60 * 10000 = (f % PerMinute) / Fine
decimalToDms(decimal) ==
    LET absolute == MathAbs(decimal)
        degrees == absolute.w
        minutes == absolute.f \div PerMinute
        seconds == MathRound(absolute.f % PerMinute, Fine)
    IN  <<<<degrees, 1>>, <<minutes, 1>>, <<seconds, SecDen>>>>

\* r[1] / r[2] as steps of 1/Unit, r counting degrees, minutes or seconds;
\* exact when the denominator divides SecDen
DegSteps(r) == (r[1] % r[2]) * (Unit \div r[2])
MinSteps(r) == r[1] * (Unit \div (60 * r[2]))
SecSteps(r) == r[1] * (Unit \div (3600 * r[2]))

dmsToDecimal_NoSign(d, r) ==
    IF Len(d) < 3 THEN Zero
    ELSE Carry(FALSE, d[1][1] \div d[1][2], DegSteps(d[1]) + MinSteps(d[2]) + SecSteps(d[3]))

dmsToDecimal_SouthOnly(d, r) ==
    IF Len(d) < 3 THEN Zero
    ELSE LET decimal == Carry(FALSE, d[1][1] \div d[1][2],
                              DegSteps(d[1]) + MinSteps(d[2]) + SecSteps(d[3]))
         IN  IF r = "S" THEN Negate(decimal) ELSE decimal

\* Convert DMS to Decimal
dmsToDecimal(d, r) ==
    IF Len(d) < 3 THEN Zero
    ELSE LET decimal == Carry(FALSE, d[1][1] \div d[1][2],
                              DegSteps(d[1]) + MinSteps(d[2]) + SecSteps(d[3]))
         IN  IF r = "S" \/ r = "W" THEN Negate(decimal) ELSE decimal

\* embedExifData: the reference letters
LatRef(lat) == IF GeZero(lat) THEN "N" ELSE "S"
LngRef(lng) == IF GeZero(lng) THEN "E" ELSE "W"

-----------------------------------------------------------------------------
(* Altitudes: [nan, mm] with mm a signed count of steps, Fine steps per    *)
(* centimetre                                                              *)

\* embedExifData: "Math.round(alt * 100), 100"
AltDen == 100
PerMetre == AltDen * Fine

Alt(steps) == [nan |-> FALSE, mm |-> steps]
NaNAlt == [nan |-> TRUE, mm |-> 0]
AbsInt(n) == IF n < 0 THEN -n ELSE n

-----------------------------------------------------------------------------
(* JavaScript objects and exceptions *)

\* {} ; obj[k] = v ; a call's outcome: a value returned or an exception thrown
EmptyObj == [k \in {} |-> k]
Put(obj, k, v) == [x \in (DOMAIN obj) \cup {k} |-> IF x = k THEN v ELSE obj[x]]
Has(obj, k) == k \in DOMAIN obj
\* the properties of obj among keys
Restrict(obj, keys) == [k \in (DOMAIN obj) \cap keys |-> obj[k]]
Returned(v) == [threw |-> FALSE, value |-> v]
Thrown == [threw |-> TRUE, value |-> EmptyObj]
\* truthiness of obj[k] for a string tag (the empty string is falsy) and for
\* an array or object tag (always truthy when present)
TruthyStr(obj, k) == Has(obj, k) /\ obj[k] # ""
TruthyObj(obj, k) == Has(obj, k)

-----------------------------------------------------------------------------
(* piexifjs, as geoUtils uses it.  A data URL is [kind, exif]: kind says   *)
(* what the bytes are, exif is the tag store of its metadata container.    *)
(*   "exif"      a JPEG with a well-formed container                       *)
(*   "noexif"    a JPEG without a container                                *)
(*   "malformed" a JPEG whose container cannot be parsed                   *)
(*   "notjpeg"   bytes without the JPEG markers                            *)
(* The serialised container (piexif.dump) stands for the store it holds.   *)

NoThumbnail == "null"
\* what piexif.load returns for a JPEG without a container
LoadSkeleton ==
    [g \in {"0th", "Exif", "GPS", "Interop", "1st", "thumbnail"} |->
        IF g = "thumbnail" THEN NoThumbnail ELSE EmptyObj]

piexifLoad(data) ==
    CASE data.kind = "exif" -> Returned(data.exif)
      [] data.kind = "noexif" -> Returned(LoadSkeleton)
      [] OTHER -> Thrown

piexifDump(exifObj) == exifObj

piexifInsert(exifBytes, jpeg) ==
    IF jpeg.kind = "notjpeg" THEN Thrown
    ELSE Returned([kind |-> "exif", exif |-> exifBytes])

-----------------------------------------------------------------------------
(* geoUtils: the metadata codec *)

\* the four tags parseExifData needs for a position
HasPosition_MagnitudesOnly(gpsIfd) ==
    TruthyObj(gpsIfd, "GPSLatitude") /\ TruthyObj(gpsIfd, "GPSLongitude")

HasPosition(gpsIfd) ==
    /\ TruthyObj(gpsIfd, "GPSLatitude") /\ TruthyStr(gpsIfd, "GPSLatitudeRef")
    /\ TruthyObj(gpsIfd, "GPSLongitude") /\ TruthyStr(gpsIfd, "GPSLongitudeRef")

\* gpsIfd[k], undefined standing as the empty string
TagOr(gpsIfd, k) == IF Has(gpsIfd, k) THEN gpsIfd[k] ELSE ""

ParseGps_AltUnsigned(result, exifObj) ==
    IF ~TruthyObj(exifObj, "GPS") THEN result
    ELSE LET gpsIfd == exifObj["GPS"]
         IN  IF HasPosition(gpsIfd)
             THEN LET finalLat == dmsToDecimal(gpsIfd["GPSLatitude"], TagOr(gpsIfd, "GPSLatitudeRef"))
                      finalLng == dmsToDecimal(gpsIfd["GPSLongitude"], TagOr(gpsIfd, "GPSLongitudeRef"))
                      alt == gpsIfd["GPSAltitude"]
                      finalAlt ==
                          IF TruthyObj(gpsIfd, "GPSAltitude")
                          THEN Alt((alt[1] * PerMetre) \div alt[2])
                          ELSE Alt(0)
                  IN  Put(result, "gps",
                          [lat |-> finalLat, lng |-> finalLng, altitude |-> finalAlt])
             ELSE result

\* the GPS IFD part of parseExifData: the gps field, when there is one
ParseGps(result, exifObj) ==
    IF ~TruthyObj(exifObj, "GPS") THEN result
    ELSE LET gpsIfd == exifObj["GPS"]
             altRef == IF Has(gpsIfd, "GPSAltitudeRef") THEN gpsIfd["GPSAltitudeRef"] ELSE 0
         IN  IF HasPosition(gpsIfd)
             THEN LET finalLat == dmsToDecimal(gpsIfd["GPSLatitude"], TagOr(gpsIfd, "GPSLatitudeRef"))
                      finalLng == dmsToDecimal(gpsIfd["GPSLongitude"], TagOr(gpsIfd, "GPSLongitudeRef"))
                      alt == gpsIfd["GPSAltitude"]
                      finalAlt ==
                          IF TruthyObj(gpsIfd, "GPSAltitude")
                          THEN LET q == (alt[1] * PerMetre) \div alt[2]
                               IN  IF altRef = 1 THEN Alt(-q) ELSE Alt(q)
                          ELSE Alt(0)
                  IN  Put(result, "gps",
                          [lat |-> finalLat, lng |-> finalLng, altitude |-> finalAlt])
             ELSE result

\* the 0th and Exif IFD part of parseExifData
ParseDevice(result, exifObj) ==
    LET zeroIfd == exifObj["0th"]
        exifIfd == exifObj["Exif"]
        r1 == IF TruthyObj(exifObj, "0th") /\ TruthyStr(zeroIfd, "Make")
              THEN Put(result, "make", zeroIfd["Make"]) ELSE result
        r2 == IF TruthyObj(exifObj, "0th") /\ TruthyStr(zeroIfd, "Model")
              THEN Put(r1, "model", zeroIfd["Model"]) ELSE r1
    IN  IF TruthyObj(exifObj, "Exif") /\ TruthyStr(exifIfd, "DateTimeOriginal")
        THEN Put(r2, "dateTimeOriginal", exifIfd["DateTimeOriginal"]) ELSE r2

parseExifData_NoCatch(base64) ==
    LET loaded == piexifLoad(base64)
    IN  IF loaded.threw THEN Thrown
        ELSE Returned(ParseGps(ParseDevice(Put(EmptyObj, "rawExifObj", loaded.value),
                                           loaded.value), loaded.value))

parseExifData(base64) ==
    LET loaded == piexifLoad(base64)
    IN  IF loaded.threw THEN Returned(Put(EmptyObj, "rawExifObj", EmptyObj))
        ELSE Returned(ParseGps(ParseDevice(Put(EmptyObj, "rawExifObj", loaded.value),
                                           loaded.value), loaded.value))

\* the skeleton embedExifData starts from when the metadata has no store
EmbedSkeleton ==
    [g \in {"0th", "Exif", "GPS", "1st", "thumbnail"} |->
        IF g = "thumbnail" THEN NoThumbnail ELSE EmptyObj]

\* embedExifData: the store it works on
StartStore_Fresh(metadata) == EmbedSkeleton

StartStore(metadata) ==
    IF Has(metadata, "rawExifObj") THEN metadata["rawExifObj"] ELSE EmbedSkeleton

WritePosition_North(gpsIfd, newGps) ==
    Put(Put(Put(Put(gpsIfd, "GPSLatitude", decimalToDms(newGps["lat"])), "GPSLatitudeRef", "N"),
            "GPSLongitude", decimalToDms(newGps["lng"])), "GPSLongitudeRef", LngRef(newGps["lng"]))

\* embedExifData: the four position tags
WritePosition(gpsIfd, newGps) ==
    LET latDms == decimalToDms(newGps["lat"])
        lngDms == decimalToDms(newGps["lng"])
        latRef == LatRef(newGps["lat"])
        lngRef == LngRef(newGps["lng"])
    IN  Put(Put(Put(Put(gpsIfd, "GPSLatitude", latDms), "GPSLatitudeRef", latRef),
                "GPSLongitude", lngDms), "GPSLongitudeRef", lngRef)

WriteAltitude_Unsigned(gpsIfd, newGps) ==
    IF Has(newGps, "altitude")
    THEN Put(Put(gpsIfd, "GPSAltitude", <<MathRound(AbsInt(newGps["altitude"].mm), Fine), AltDen>>),
             "GPSAltitudeRef", 0)
    ELSE gpsIfd

WriteAltitude_Clearing(gpsIfd, newGps) ==
    IF Has(newGps, "altitude")
    THEN Put(Put(gpsIfd, "GPSAltitude", <<MathRound(AbsInt(newGps["altitude"].mm), Fine), AltDen>>),
             "GPSAltitudeRef", IF newGps["altitude"].mm < 0 THEN 1 ELSE 0)
    ELSE Restrict(gpsIfd, (DOMAIN gpsIfd) \ {"GPSAltitude", "GPSAltitudeRef"})

\* embedExifData: the altitude tags, alt * 100 being |steps| / Fine
WriteAltitude(gpsIfd, newGps) ==
    IF Has(newGps, "altitude")
    THEN LET alt == AbsInt(newGps["altitude"].mm)
             altRef == IF newGps["altitude"].mm < 0 THEN 1 ELSE 0
             altRational == <<MathRound(alt, Fine), AltDen>>
         IN  Put(Put(gpsIfd, "GPSAltitude", altRational), "GPSAltitudeRef", altRef)
    ELSE gpsIfd

WriteVersion_Always(gpsIfd) == Put(gpsIfd, "GPSVersionID", <<2, 2, 0, 0>>)

\* embedExifData: "Add a version tag if missing"
WriteVersion(gpsIfd) ==
    IF ~TruthyObj(gpsIfd, "GPSVersionID")
    THEN Put(gpsIfd, "GPSVersionID", <<2, 2, 0, 0>>) ELSE gpsIfd

\* embedExifData up to the version tag: the store piexif.dump is given.
\* When metadata.rawExifObj exists this is that very object, written in place.
EmbedStore(metadata, newGps) ==
    LET exifObj == StartStore(metadata)
        gpsIfd == IF TruthyObj(exifObj, "GPS") THEN exifObj["GPS"] ELSE EmptyObj
    IN  Put(exifObj, "GPS",
            WriteVersion(WriteAltitude(WritePosition(gpsIfd, newGps), newGps)))

embedExifData(originalBase64, metadata, newGps) ==
    LET exifBytes == piexifDump(EmbedStore(metadata, newGps))
    IN  piexifInsert(exifBytes, originalBase64)

\* the metadata record as the caller sees it after an embedExifData call
AfterEmbed(metadata, newGps) ==
    IF Has(metadata, "rawExifObj")
    THEN Put(metadata, "rawExifObj", EmbedStore(metadata, newGps))
    ELSE metadata

-----------------------------------------------------------------------------
(* Inputs: angles, positions, files *)

Deg(w) == D(FALSE, w, 0)
\* w + n/10000 degrees
Deg4(neg, w, n) == D(neg, w, n * (Unit \div 10000))

\* fractions of a degree, in steps: exact ones, ones that round down, ones that
\* round up, ones whose seconds round up to a full minute
FracSamples ==
    { 0, 1, Fine \div 2, Fine,
      2995 * (Unit \div 10000), 2401 * (Unit \div 10000), 8688 * (Unit \div 10000),
      PerMinute - 1, PerMinute,
      17 * PerMinute + 582 * (PerMinute \div 600) + 3,
      Unit - PerMinute + (Fine \div 2),
      Unit - (Fine \div 2) - 1, Unit - (Fine \div 2), Unit - 1 }
WholeSamples == {0, 41, 69, 89, 179}

\* decimal degree values in [-180, 180]
Angles ==
    { D(n, w, f) : n \in BOOLEAN, w \in WholeSamples, f \in FracSamples }
        \cup { Deg(90), Deg(180), D(TRUE, 180, 0), D(TRUE, 90, 0) }

NoDms == <<>>

\* DMS magnitudes as files hold them
Lat41 == <<<<41, 1>>, <<17, 1>>, <<582, 10>>>>
Lng69 == <<<<69, 1>>, <<14, 1>>, <<2436, 100>>>>
Lat33 == <<<<33, 1>>, <<52, 1>>, <<768, 100>>>>
Lng70 == <<<<70, 1>>, <<30, 1>>, <<0, 1>>>>
Lat0 == <<<<0, 1>>, <<0, 1>>, <<0, 1>>>>
LatShort == <<<<41, 1>>, <<17, 1>>>>

GpsFull ==
    [GPSVersionID |-> <<2, 3, 0, 0>>,
     GPSLatitudeRef |-> "N", GPSLatitude |-> Lat41,
     GPSLongitudeRef |-> "E", GPSLongitude |-> Lng69,
     GPSAltitudeRef |-> 0, GPSAltitude |-> <<1205, 10>>]
GpsSouth ==
    [GPSLatitudeRef |-> "S", GPSLatitude |-> Lat33,
     GPSLongitudeRef |-> "W", GPSLongitude |-> Lng70,
     GPSAltitudeRef |-> 1, GPSAltitude |-> <<1250, 100>>]
GpsAltNoRef == Restrict(GpsFull, (DOMAIN GpsFull) \ {"GPSAltitudeRef", "GPSVersionID"})
\* an altitude reference that is neither 0 nor 1
GpsAltRef2 == [GpsFull EXCEPT !.GPSAltitudeRef = 2]
GpsEquator == [GpsFull EXCEPT !.GPSLatitude = Lat0]
GpsShort == [GpsFull EXCEPT !.GPSLatitude = LatShort]

FourTags == {"GPSLatitude", "GPSLatitudeRef", "GPSLongitude", "GPSLongitudeRef"}
OtherGpsTags == {"GPSVersionID", "GPSAltitude", "GPSAltitudeRef"}
\* every combination of the four position tags, and groups with the other tags
GpsGroups ==
    { Restrict(GpsFull, four) : four \in SUBSET FourTags }
        \cup {GpsFull, Restrict(GpsFull, OtherGpsTags), GpsSouth, GpsAltNoRef, GpsAltRef2,
                 GpsEquator, GpsShort}

StoreOf(gps) ==
    [g \in {"0th", "Exif", "GPS", "Interop", "1st", "thumbnail"} |->
        CASE g = "0th" -> [Make |-> "Canon", Model |-> "EOS", Orientation |-> "1"]
          [] g = "Exif" -> [DateTimeOriginal |-> "2020:01:02 03:04:05", FNumber |-> "28/10"]
          [] g = "GPS" -> gps
          [] g = "1st" -> [Compression |-> "6"]
          [] g = "thumbnail" -> "thumbnail bytes"
          [] OTHER -> EmptyObj]
\* a container with a GPS group and no device or timestamp tags
BareStoreOf(gps) == [LoadSkeleton EXCEPT !["GPS"] = gps]

Jpeg(store) == [kind |-> "exif", exif |-> store]
NoExifJpeg == [kind |-> "noexif", exif |-> EmptyObj]
MalformedJpeg == [kind |-> "malformed", exif |-> EmptyObj]
NotJpeg == [kind |-> "notjpeg", exif |-> EmptyObj]
NoData == [kind |-> "", exif |-> EmptyObj]

Datas ==
    { Jpeg(StoreOf(g)) : g \in GpsGroups }
        \cup {Jpeg(BareStoreOf(GpsFull)), NoExifJpeg, MalformedJpeg, NotJpeg}

\* GPSData with and without the optional altitude
Position(lat, lng, altitude) == [lat |-> lat, lng |-> lng, altitude |-> altitude]
PositionNoAlt(lat, lng) == [lat |-> lat, lng |-> lng]

\* altitudes: 500 m, -12.5 m, 12.345 m, -0.004 m
AltSamples ==
    { Alt(500 * PerMetre), Alt(-(1250 * Fine)),
      Alt(1234 * Fine + (Fine \div 2)), Alt(-((Fine \div 2) - 1)) }
LatSamples == { Deg(41), Deg4(TRUE, 33, 8688), D(TRUE, 89, Unit - 1) }
LngSamples == { Deg(70), D(TRUE, 179, Unit - PerMinute + 3) }
CodecPositions ==
    { Position(la, lo, al) : la \in LatSamples, lo \in LngSamples, al \in AltSamples }
        \cup { PositionNoAlt(la, lo) : la \in LatSamples, lo \in LngSamples }

\* the outcome of a call not made yet, and of a call made
NotCalled == [called |-> FALSE, threw |-> FALSE, value |-> EmptyObj]
Called(r) == [called |-> TRUE, threw |-> r.threw, value |-> r.value]

-----------------------------------------------------------------------------
(* Session values *)

\* Default to Tashkent, Uzbekistan
DEFAULT_GPS == Position(Deg4(FALSE, 41, 2995), Deg4(FALSE, 69, 2401), Alt(0))

\* the text of an input field: a number's decimal string, or text parseFloat
\* makes nothing of (the empty field)
NumText(v) == [kind |-> IF v.nan THEN "NaN" ELSE "num", val |-> v]
EmptyLatText == [kind |-> "empty", val |-> Zero]
EmptyAltText == [kind |-> "empty", val |-> Alt(0)]
parseFloat(text, nan) == IF text.kind = "num" THEN text.val ELSE nan

\* Number.prototype.toFixed(6): the magnitude rounded to 1e-6, halves up
Micro == Unit \div 1000000
toFixed6(x) ==
    IF x.nan THEN NumText(x)
    ELSE NumText(Carry(x.neg, x.w, MathRound(x.f, Micro) * Micro))
\* Number.prototype.toString
toString(x) == NumText(x)

NoFile == [type |-> "", data |-> NoData]
NoImage == [id |-> 0, file |-> NoFile, previewUrl |-> NoData, metadata |-> EmptyObj]
NoUrl == [present |-> FALSE, blob |-> NoData]
\* URL.createObjectURL(new Blob(bytes of the JPEG))
ObjectUrl(jpeg) == [present |-> TRUE, blob |-> jpeg]
NoEditor ==
    [inst |-> 0, localLat |-> EmptyLatText, localLng |-> EmptyLatText,
     localAlt |-> EmptyAltText, isSaving |-> FALSE, downloadUrl |-> NoUrl]

\* nothing loaded, nothing running
SessionIdle ==
    /\ image = NoImage /\ currentGps = DEFAULT_GPS /\ mapCenter = DEFAULT_GPS
    /\ editor = NoEditor /\ readers = {} /\ pending = {} /\ nextId = 0

-----------------------------------------------------------------------------
(* The coordinate transform called directly *)

DmsIdle ==
    /\ SessionIdle
    /\ src = NoData /\ rec = NotCalled /\ encArg = EmptyObj /\ encOut = NotCalled

InitDms ==
    /\ DmsIdle
    /\ angle \in Angles
    /\ dms = NoDms /\ ref = "" /\ back = NaN

\* decimalToDms(Math.abs(d)) with the reference letter of d's sign, as
\* embedExifData pairs them for a latitude ("lat") or a longitude ("lng")
ToDms(axis) ==
    /\ dms = NoDms
    /\ dms' = decimalToDms(MathAbs(angle))
    /\ ref' = IF axis = "lat" THEN LatRef(angle) ELSE LngRef(angle)
    /\ UNCHANGED <<angle, back, sessionVars, codecVars>>

ToDecimal ==
    /\ dms # NoDms
    /\ back' = dmsToDecimal(dms, ref)
    /\ UNCHANGED <<angle, dms, ref, sessionVars, codecVars>>

NextDms ==
    \/ \E axis \in {"lat", "lng"} : ToDms(axis)
    \/ ToDecimal

SpecDms == InitDms /\ [][NextDms]_vars

-----------------------------------------------------------------------------
(* Claims about the coordinate transform (SpecDms) *)

\* 1.5e-5 degree, in steps
RoundTripTol == 15 * (Unit \div 1000000)

\* C1: for every d in [-180, 180], dmsToDecimal(decimalToDms(|d|), ref) with
\* ref the letter of d's sign differs from d by less than 1.5e-5 degree.
C1_RoundTrip == ~back.nan => Within(back, angle, RoundTripTol)

\* a negative angle whose seconds were rounded, converted there and back
C1_Witness == ~back.nan /\ angle.neg /\ back # angle /\ ref \in {"S", "W"}

\* C2: the DmsAngle decimalToDms returns has degrees >= 0, 0 <= minutes < 60
\* and 0 <= seconds < 60 as rational values.
C2_DmsInvariant ==
    dms # NoDms =>
        /\ dms[1][1] >= 0
        /\ 0 <= dms[2][1] /\ dms[2][1] < 60 * dms[2][2]
        /\ 0 <= dms[3][1] /\ dms[3][1] < 60 * dms[3][2]

\* reference letters a file may hold: the four of the standard, and others
RefLetters == {"N", "S", "E", "W", "", "s", "X"}

\* C12: dmsToDecimal takes the sign from the reference letter alone: for a
\* DmsAngle of three components the result is -(degrees + minutes/60 +
\* seconds/3600) for 'S' and 'W' and +(the same) for any other reference, so
\* the results for 'N' and for 'S' are exact negations of each other.
C12_SignFromRef ==
    dms # NoDms =>
        LET magnitude == Carry(FALSE, dms[1][1], dms[2][1] * PerMinute + dms[3][1] * Fine)
        IN  /\ \A r \in RefLetters :
                   dmsToDecimal(dms, r) = IF r \in {"S", "W"} THEN Negate(magnitude) ELSE magnitude
            /\ dmsToDecimal(dms, "S") = Negate(dmsToDecimal(dms, "N"))
            /\ ~back.nan => back = IF ref \in {"S", "W"} THEN Negate(magnitude) ELSE magnitude

\* a western longitude converted back: the negation of what 'E' gives
C12_Witness ==
    /\ dms # NoDms /\ ref = "W" /\ back.neg
    /\ back = Negate(dmsToDecimal(dms, "E"))

-----------------------------------------------------------------------------
(* The codec called directly: decode a file, encode positions into it, and  *)
(* decode what encode returned                                             *)

CodecIdle ==
    /\ SessionIdle
    /\ angle = Zero /\ dms = NoDms /\ ref = "" /\ back = NaN

InitCodec ==
    /\ CodecIdle
    /\ src \in Datas
    /\ rec = NotCalled /\ encArg = EmptyObj /\ encOut = NotCalled

\* metadata = parseExifData(src)
Decode ==
    /\ ~rec.called
    /\ rec' = Called(parseExifData(src))
    /\ UNCHANGED <<src, encArg, encOut, sessionVars, dmsVars>>

\* embedExifData(src, metadata, newGps); metadata.rawExifObj is written in place
Encode(newGps) ==
    /\ rec.called /\ ~rec.threw
    /\ encOut' = Called(embedExifData(src, rec.value, newGps))
    /\ encArg' = newGps
    /\ rec' = [rec EXCEPT !.value = AfterEmbed(rec.value, newGps)]
    /\ UNCHANGED <<src, sessionVars, dmsVars>>

\* the file encode returned, opened again
Reopen ==
    /\ encOut.called /\ ~encOut.threw
    /\ src' = encOut.value
    /\ rec' = NotCalled /\ encArg' = EmptyObj /\ encOut' = NotCalled
    /\ UNCHANGED <<sessionVars, dmsVars>>

NextCodec ==
    \/ Decode
    \/ \E newGps \in CodecPositions : Encode(newGps)
    \/ Reopen

SpecCodec == InitCodec /\ [][NextCodec]_vars

-----------------------------------------------------------------------------
(* Claims about the codec (SpecCodec) *)

NonGps(store) == Restrict(store, (DOMAIN store) \ {"GPS"})
GpsOf(store) == IF Has(store, "GPS") THEN store["GPS"] ELSE EmptyObj
\* the store decode produced from src
DecodedStore == parseExifData(src).value["rawExifObj"]
NoTags(store) ==
    \A g \in DOMAIN store :
        IF g = "thumbnail" THEN store[g] = NoThumbnail ELSE DOMAIN store[g] = {}
DeviceFields(metadata) == Restrict(metadata, {"make", "model", "dateTimeOriginal"})
Encoded == encOut.called /\ ~encOut.threw

\* C3: encoding a position leaves every non-GPS tag group (0th, Exif, 1st,
\* thumbnail, ...) as decode produced it, in the store and in the file encode
\* returns, after any number of encodes; only the GPS group differs.
C3_NonGpsPreserved ==
    /\ (rec.called /\ ~rec.threw) =>
           NonGps(rec.value["rawExifObj"]) = NonGps(DecodedStore)
    /\ Encoded =>
           /\ encOut.value.kind = "exif"
           /\ NonGps(encOut.value.exif) = NonGps(DecodedStore)

\* a file with device and timestamp tags, encoded with a new position
C3_Witness ==
    /\ Encoded
    /\ src.kind = "exif" /\ TruthyStr(src.exif["0th"], "Make")
    /\ GpsOf(encOut.value.exif) # GpsOf(src.exif)
    /\ encOut.value.exif["0th"] = src.exif["0th"]

\* C4: the tag store the record got at decode time is never modified by
\* encode: after any encode calls the record's store equals what decode
\* produced.
C4_StoreUnmodified ==
    (rec.called /\ ~rec.threw) => rec.value["rawExifObj"] = DecodedStore

\* C7: decode does not throw on an absent or malformed container: it returns
\* a record with an empty tag store and no make, model, timestamp or position.
C7_MissingContainer ==
    (rec.called /\ ~encOut.called /\ src.kind \in {"noexif", "malformed", "notjpeg"}) =>
        /\ ~rec.threw
        /\ NoTags(rec.value["rawExifObj"])
        /\ DOMAIN rec.value = {"rawExifObj"}

C7_Witness ==
    /\ rec.called /\ ~rec.threw /\ src.kind = "malformed"
    /\ rec.value["rawExifObj"] = EmptyObj

\* C8: decode produces a position if and only if latitude, latitude
\* reference, longitude and longitude reference are all in the GPS group;
\* with one missing there is no position, and no exception.
C8_AllFour ==
    rec.called =>
        /\ ~rec.threw
        /\ Has(rec.value, "gps") <=>
               (src.kind = "exif" /\ FourTags \subseteq DOMAIN GpsOf(src.exif))

\* latitude magnitude without its reference: no position
C8_Witness ==
    /\ rec.called /\ src.kind = "exif"
    /\ Has(GpsOf(src.exif), "GPSLatitude") /\ ~Has(GpsOf(src.exif), "GPSLatitudeRef")
    /\ Has(GpsOf(src.exif), "GPSLongitude") /\ Has(GpsOf(src.exif), "GPSLongitudeRef")
    /\ ~Has(rec.value, "gps")

\* C9: decoding what encode(store, p) returned gives a position within the
\* round-trip tolerance of p in latitude and longitude, with p's altitude
\* exactly when that is a whole number of centimetres (-12.5 m is written as
\* 1250/100 with flag 1 and read back as -12.5), and the make, model and
\* timestamp of the original.
C9_EncodeDecode ==
    Encoded =>
        LET r == parseExifData(encOut.value)
        IN  /\ ~r.threw /\ Has(r.value, "gps")
            /\ Within(r.value["gps"].lat, encArg["lat"], RoundTripTol)
            /\ Within(r.value["gps"].lng, encArg["lng"], RoundTripTol)
            /\ (Has(encArg, "altitude") /\ encArg["altitude"].mm % Fine = 0) =>
                   r.value["gps"].altitude = encArg["altitude"]
            /\ (Has(encArg, "altitude") /\ encArg["altitude"] = Alt(-(1250 * Fine))) =>
                   /\ encOut.value.exif["GPS"]["GPSAltitude"] = <<1250, 100>>
                   /\ encOut.value.exif["GPS"]["GPSAltitudeRef"] = 1
            /\ DeviceFields(r.value) = DeviceFields(rec.value)

\* -12.5 m encoded into a file with device tags and read back
C9_Witness ==
    /\ Encoded /\ Has(encArg, "altitude") /\ encArg["altitude"] = Alt(-(1250 * Fine))
    /\ parseExifData(encOut.value).value["gps"].altitude = Alt(-(1250 * Fine))
    /\ Has(rec.value, "make")
    /\ encArg["lat"].neg

\* C10: encode with an altitude sets the GPS altitude tag to
\* round(|altitude| * 100)/100 and the flag to 1 if altitude < 0 else 0;
\* without one it leaves the altitude tag and flag as they were.
AltTags(gpsIfd) == Restrict(gpsIfd, {"GPSAltitude", "GPSAltitudeRef"})
\* a step that is an embedExifData call: the only one taken with a decoded
\* record that leaves an outcome in encOut
EncodeStep == rec.called /\ ~rec.threw /\ encOut'.called /\ src' = src
C10_Altitude ==
    [][ EncodeStep =>
          LET before == AltTags(GpsOf(rec.value["rawExifObj"]))
              after == AltTags(GpsOf(rec'.value["rawExifObj"]))
              a == encArg'["altitude"].mm
          IN  /\ IF Has(encArg', "altitude")
                 THEN after = [GPSAltitude |-> <<(2 * AbsInt(a) + Fine) \div (2 * Fine), 100>>,
                               GPSAltitudeRef |-> IF a < 0 THEN 1 ELSE 0]
                 ELSE after = before
              /\ ~encOut'.threw => AltTags(GpsOf(encOut'.value.exif)) = after ]_vars

\* an encode without altitude on a store that has altitude tags
C10_Witness ==
    /\ Encoded /\ ~Has(encArg, "altitude")
    /\ Has(GpsOf(encOut.value.exif), "GPSAltitude")
    /\ GpsOf(encOut.value.exif)["GPSLatitude"] # GpsOf(DecodedStore)["GPSLatitude"]

\* C11: when the GPS group has an altitude tag (and a position, so that there
\* is a decoded altitude), the decoded altitude is numerator/denominator,
\* negated exactly when the altitude reference is 1; for any other reference,
\* an absent one included, it is the magnitude.
C11_AltitudeSign ==
    (rec.called /\ src.kind = "exif" /\ Has(GpsOf(src.exif), "GPSAltitude")
        /\ FourTags \subseteq DOMAIN GpsOf(src.exif)) =>
        LET g == GpsOf(src.exif)
            magnitude == (g["GPSAltitude"][1] * AltDen * Fine) \div g["GPSAltitude"][2]
            below == Has(g, "GPSAltitudeRef") /\ g["GPSAltitudeRef"] = 1
        IN  /\ Has(rec.value, "gps")
            /\ rec.value["gps"].altitude.nan = FALSE
            /\ rec.value["gps"].altitude.mm = IF below THEN -magnitude ELSE magnitude

\* 1250/100 with reference 1 decoded as -12.5 m
C11_Witness ==
    /\ rec.called /\ src.kind = "exif" /\ Has(rec.value, "gps")
    /\ GpsOf(src.exif)["GPSAltitude"] = <<1250, 100>>
    /\ GpsOf(src.exif)["GPSAltitudeRef"] = 1
    /\ rec.value["gps"].altitude = Alt(-(1250 * Fine))

\* C13: after encode the GPS group holds the DMS of |latitude| and
\* |longitude| with reference 'N' for latitude >= 0, 'S' for latitude < 0,
\* 'E' for longitude >= 0 and 'W' for longitude < 0; all four tags are there,
\* so decoding the file encode returned yields a position.
C13_Hemisphere ==
    encOut.called =>
        LET g == GpsOf(rec.value["rawExifObj"])
        IN  /\ FourTags \subseteq DOMAIN g
            /\ g["GPSLatitude"] = decimalToDms(MathAbs(encArg["lat"]))
            /\ g["GPSLongitude"] = decimalToDms(MathAbs(encArg["lng"]))
            /\ g["GPSLatitudeRef"] = IF encArg["lat"].neg THEN "S" ELSE "N"
            /\ g["GPSLongitudeRef"] = IF encArg["lng"].neg THEN "W" ELSE "E"
            /\ ~encOut.threw =>
                   /\ Restrict(GpsOf(encOut.value.exif), FourTags) = Restrict(g, FourTags)
                   /\ Has(parseExifData(encOut.value).value, "gps")

\* a southern, western position encoded into a file that had no position
C13_Witness ==
    /\ Encoded /\ encArg["lat"].neg /\ encArg["lng"].neg
    /\ ~Has(rec.value, "gps")
    /\ GpsOf(encOut.value.exif)["GPSLatitudeRef"] = "S"
    /\ GpsOf(encOut.value.exif)["GPSLongitudeRef"] = "W"
    /\ parseExifData(encOut.value).value["gps"].lat.neg

\* C14: after an encode the GPS group has a version tag: the one it had, or
\* [2, 2, 0, 0] when it had none; encode creates the GPS group when the store
\* has none, as in the empty store of a failed decode.
C14_Version ==
    [][ EncodeStep =>
          LET before == GpsOf(rec.value["rawExifObj"])
              after == GpsOf(rec'.value["rawExifObj"])
          IN  /\ Has(rec'.value["rawExifObj"], "GPS")
              /\ Has(after, "GPSVersionID")
              /\ after["GPSVersionID"] =
                     IF Has(before, "GPSVersionID") THEN before["GPSVersionID"]
                     ELSE <<2, 2, 0, 0>>
              /\ ~encOut'.threw =>
                     /\ Has(encOut'.value.exif, "GPS")
                     /\ GpsOf(encOut'.value.exif)["GPSVersionID"] = after["GPSVersionID"] ]_vars

\* an encode on the empty store of a failed decode
C14_Witness ==
    /\ Encoded /\ src.kind = "malformed"
    /\ DOMAIN rec.value["rawExifObj"] = {"GPS"}
    /\ GpsOf(encOut.value.exif)["GPSVersionID"] = <<2, 2, 0, 0>>

-----------------------------------------------------------------------------
(* The editing session: App, ImageUploader, ExifEditor, MapView *)

\* images loaded in one session, FileReaders in flight at once
MaxLoads == 2
MaxReaders == 2

\* files the user may pick: content and the MIME type the browser reports
Files ==
    { [type |-> "image/jpeg", data |-> Jpeg(StoreOf(GpsSouth))],
      [type |-> "image/jpeg", data |-> Jpeg(StoreOf(GpsEquator))],
      [type |-> "image/jpeg", data |-> NotJpeg],
      [type |-> "image/png", data |-> NotJpeg] }

\* what the user may type into the fields
LatTexts == {EmptyLatText, NumText(Deg(95))}
LngTexts == {EmptyLatText}
AltTexts == {EmptyAltText}
\* where the user may click or drop the pin: 41.0000004, 190 (Leaflet does not
\* wrap the longitude of a click on a copy of the world)
MapPoints == { [lat |-> D(FALSE, 41, (4 * Micro) \div 10), lng |-> Deg(190)] }

Mounted == editor.inst # 0

\* ExifEditor's effect on [currentGps]: the fields show the new position
SyncLocal(ed, gps) ==
    [ed EXCEPT !.localLat = toFixed6(gps["lat"]),
               !.localLng = toFixed6(gps["lng"]),
               !.localAlt = IF Has(gps, "altitude") THEN toString(gps["altitude"]) ELSE @]

\* a fresh ExifEditor instance, after its first render and effect; the
\* altitude field starts as "0" when the position has no altitude
MountEditor(inst, gps) ==
    SyncLocal([NoEditor EXCEPT !.inst = inst, !.localAlt = toString(Alt(0))], gps)

InitSession ==
    /\ SessionIdle
    /\ src = NoData /\ rec = NotCalled /\ encArg = EmptyObj /\ encOut = NotCalled
    /\ angle = Zero /\ dms = NoDms /\ ref = "" /\ back = NaN

\* ImageUploader.handleFileChange / handleDrop -> validateAndPass ->
\* App.handleImageSelect: start reading the file
SelectFile(file) ==
    /\ image.id = 0
    /\ nextId + Cardinality(readers) < MaxLoads
    /\ Cardinality(readers) < MaxReaders
    /\ file \notin readers
    /\ IF file.type = "image/jpeg" \/ file.type = "image/jpg"
       THEN readers' = readers \cup {file}
       ELSE UNCHANGED readers  \* alert("Please upload a valid JPG/JPEG image.")
    /\ UNCHANGED <<image, currentGps, mapCenter, editor, pending, nextId, codecVars, dmsVars>>

\* App.handleImageSelect, reader.onload
ReaderLoaded(file) ==
    /\ file \in readers
    /\ readers' = readers \ {file}
    /\ LET result == file.data
           parsed == parseExifData(result)
           metadata == parsed.value
           id == nextId + 1
           moves == /\ Has(metadata, "gps")
                    /\ NotZero(metadata["gps"].lat) /\ NotZero(metadata["gps"].lng)
           newGps == IF moves THEN metadata["gps"] ELSE currentGps
       IN  IF parsed.threw
           THEN UNCHANGED <<image, currentGps, mapCenter, editor, nextId>>
           ELSE /\ image' = [id |-> id, file |-> file, previewUrl |-> result, metadata |-> metadata]
                /\ nextId' = id
                /\ currentGps' = newGps
                /\ mapCenter' = IF moves THEN newGps ELSE mapCenter
                /\ editor' = IF ~Mounted THEN MountEditor(id, newGps)
                             ELSE IF moves THEN SyncLocal(editor, newGps) ELSE editor
    /\ UNCHANGED <<pending, codecVars, dmsVars>>

\* ExifEditor: the inputs' onChange
TypeLat(text) ==
    /\ Mounted
    /\ editor' = [editor EXCEPT !.localLat = text]
    /\ UNCHANGED <<image, currentGps, mapCenter, readers, pending, nextId, codecVars, dmsVars>>

TypeLng(text) ==
    /\ Mounted
    /\ editor' = [editor EXCEPT !.localLng = text]
    /\ UNCHANGED <<image, currentGps, mapCenter, readers, pending, nextId, codecVars, dmsVars>>

TypeAlt(text) ==
    /\ Mounted
    /\ editor' = [editor EXCEPT !.localAlt = text]
    /\ UNCHANGED <<image, currentGps, mapCenter, readers, pending, nextId, codecVars, dmsVars>>

\* ExifEditor.handleManualChange: the GPSData given to onGpsChange
ManualGps_NoCheck(lat, lng, alt) == Position(lat, lng, alt)

ManualGps(lat, lng, alt) == Position(lat, lng, IF isNaN(alt) THEN Alt(0) ELSE alt)

\* ExifEditor.handleManualChange (the inputs' onBlur) -> App.handleManualGpsChange
HandleManualChange ==
    /\ Mounted
    /\ LET lat == parseFloat(editor.localLat, NaN)
           lng == parseFloat(editor.localLng, NaN)
           alt == parseFloat(editor.localAlt, NaNAlt)
       IN  IF ~isNaN(lat) /\ ~isNaN(lng)
           THEN /\ currentGps' = ManualGps(lat, lng, alt)
                /\ mapCenter' = ManualGps(lat, lng, alt)
                /\ editor' = SyncLocal(editor, ManualGps(lat, lng, alt))
           ELSE UNCHANGED <<currentGps, mapCenter, editor>>
    /\ UNCHANGED <<image, readers, pending, nextId, codecVars, dmsVars>>

HandleMapInteraction_Recenters(lat, lng) ==
    /\ currentGps' = [currentGps EXCEPT !.lat = lat, !.lng = lng]
    /\ mapCenter' = currentGps'
    /\ editor' = IF Mounted THEN SyncLocal(editor, currentGps') ELSE editor
    /\ UNCHANGED <<image, readers, pending, nextId, codecVars, dmsVars>>

\* MapView: click on the map or dragend of the marker -> App.handleMapInteraction
HandleMapInteraction(lat, lng) ==
    /\ currentGps' = [currentGps EXCEPT !.lat = lat, !.lng = lng]
    /\ editor' = IF Mounted THEN SyncLocal(editor, currentGps') ELSE editor
    /\ UNCHANGED <<image, mapCenter, readers, pending, nextId, codecVars, dmsVars>>

\* MapView's crosshair button -> App.handleRecenter
HandleRecenter ==
    /\ mapCenter' = currentGps
    /\ UNCHANGED <<image, currentGps, editor, readers, pending, nextId, codecVars, dmsVars>>

\* A handleSaveExif call whose ExifEditor has unmounted and whose image has
\* left App's state still runs to its end, but nothing it does is seen: its
\* set-state calls reach no instance and the store it writes belongs to no
\* image.  The model keeps the call and drops what it captured.
Orphan(call) == [inst |-> call.inst, image |-> NoImage, currentGps |-> DEFAULT_GPS]

\* App.resetApp ("Start Over"); the ExifEditor unmounts
ResetApp ==
    /\ image.id # 0
    /\ image' = NoImage
    /\ currentGps' = DEFAULT_GPS
    /\ mapCenter' = DEFAULT_GPS
    /\ editor' = NoEditor
    /\ pending' = {Orphan(call) : call \in pending}
    /\ UNCHANGED <<readers, nextId, codecVars, dmsVars>>

\* ExifEditor.handleSaveExif up to its await: the "Write EXIF Tags" button is
\* rendered while there is no downloadUrl and disabled while isSaving.  The
\* call keeps the image and currentGps of the render it was made in.
HandleSaveExif ==
    /\ Mounted
    /\ ~editor.downloadUrl.present
    /\ ~editor.isSaving
    /\ editor' = [editor EXCEPT !.isSaving = TRUE]
    /\ pending' = pending \cup {[inst |-> editor.inst, image |-> image, currentGps |-> currentGps]}
    /\ UNCHANGED <<image, currentGps, mapCenter, readers, nextId, codecVars, dmsVars>>

\* ExifEditor.handleSaveExif, its try / catch / finally: the instance's state
\* after embedExifData returned or threw
AfterSave_NoFinally(ed, newJpegBase64) ==
    IF newJpegBase64.threw
    THEN ed
    ELSE [ed EXCEPT !.downloadUrl = ObjectUrl(newJpegBase64.value), !.isSaving = FALSE]

AfterSave(ed, newJpegBase64) ==
    IF newJpegBase64.threw
    \* catch: alert("Failed to write EXIF data. Please try another image.")
    THEN [ed EXCEPT !.isSaving = FALSE]
    ELSE [ed EXCEPT !.downloadUrl = ObjectUrl(newJpegBase64.value), !.isSaving = FALSE]

\* ExifEditor.handleSaveExif after the 100 ms: encode, then offer the file
\* or alert; the set-state calls reach only the instance that made the call
SaveResumes(call) ==
    /\ call \in pending
    /\ pending' = pending \ {call}
    /\ LET newJpegBase64 == embedExifData(call.image.previewUrl, call.image.metadata, call.currentGps)
           mine == editor.inst = call.inst
       IN  /\ image' = IF call.image.id # 0 /\ image.id = call.image.id
                       THEN [image EXCEPT !.metadata = AfterEmbed(call.image.metadata, call.currentGps)]
                       ELSE image
           /\ editor' = IF ~mine \/ call.image.id = 0 THEN editor
                         ELSE AfterSave(editor, newJpegBase64)
    /\ UNCHANGED <<currentGps, mapCenter, readers, nextId, codecVars, dmsVars>>

\* ExifEditor: the "Edit More" button
EditMore ==
    /\ Mounted /\ editor.downloadUrl.present
    /\ editor' = [editor EXCEPT !.downloadUrl = NoUrl]
    /\ UNCHANGED <<image, currentGps, mapCenter, readers, pending, nextId, codecVars, dmsVars>>

Next ==
    \/ \E file \in Files : SelectFile(file)
    \/ \E file \in Files : ReaderLoaded(file)
    \/ \E text \in LatTexts : TypeLat(text)
    \/ \E text \in LngTexts : TypeLng(text)
    \/ \E text \in AltTexts : TypeAlt(text)
    \/ HandleManualChange
    \/ \E point \in MapPoints : HandleMapInteraction(point.lat, point.lng)
    \/ HandleRecenter
    \/ ResetApp
    \/ HandleSaveExif
    \/ \E call \in pending : SaveResumes(call)
    \/ EditMore

Spec == InitSession /\ [][Next]_vars

-----------------------------------------------------------------------------
(* Claims about the editing session (Spec) *)

TextIsNaN(text) == text.kind # "num"

\* C5 as stated: when the latitude, longitude or altitude text does not parse,
\* the manual edit is ignored: the working position is what it was.
C5_IgnoredEntirely ==
    [][ ( /\ HandleManualChange
          /\ \/ TextIsNaN(editor.localLat)
             \/ TextIsNaN(editor.localLng)
             \/ TextIsNaN(editor.localAlt) )
        => currentGps' = currentGps ]_vars

\* C5 as the code has it: when the latitude or longitude text does not parse
\* the manual edit is ignored and the working position is what it was; when
\* only the altitude text does not parse the edit is applied with altitude 0;
\* no NaN is ever stored in the working position.
C5_ManualEdit ==
    /\ [](~isNaN(currentGps.lat) /\ ~isNaN(currentGps.lng) /\ ~isNaN(currentGps.altitude))
    /\ [][ HandleManualChange =>
             IF TextIsNaN(editor.localLat) \/ TextIsNaN(editor.localLng)
             THEN currentGps' = currentGps
             ELSE currentGps' =
                      [lat |-> editor.localLat.val, lng |-> editor.localLng.val,
                       altitude |-> IF TextIsNaN(editor.localAlt) THEN Alt(0)
                                    ELSE editor.localAlt.val] ]_vars

\* the image's position had altitude -12.5 m; a manual edit with an empty
\* altitude field left the pin where it was, at altitude 0
C5_Witness ==
    /\ Mounted /\ Has(image.metadata, "gps")
    /\ image.metadata["gps"].altitude = Alt(-(1250 * Fine))
    /\ currentGps = [image.metadata["gps"] EXCEPT !.altitude = Alt(0)]
    /\ editor.localAlt = NumText(Alt(0))

\* C6: when encode fails on bytes that are not a JPEG no file is produced and
\* no download is offered: after the failed save the instance's download URL
\* is absent and its saving flag is false; a download URL, when there is one,
\* holds a JPEG that encode returned.
C6_FailedSave ==
    /\ [](editor.downloadUrl.present => editor.downloadUrl.blob.kind = "exif")
    /\ [][ \A call \in pending :
             (SaveResumes(call) /\ call.image.previewUrl.kind = "notjpeg") =>
                 /\ embedExifData(call.image.previewUrl, call.image.metadata,
                                  call.currentGps).threw
                 /\ editor.inst = call.inst =>
                        ~editor'.downloadUrl.present /\ ~editor'.isSaving ]_vars

\* a save of bytes that are not a JPEG has run and failed: the store got its
\* GPS group, nothing is offered, nothing is being saved
C6_Witness ==
    /\ Mounted /\ image.previewUrl.kind = "notjpeg"
    /\ Has(image.metadata["rawExifObj"], "GPS")
    /\ pending = {}
    /\ ~editor.isSaving /\ ~editor.downloadUrl.present

\* latitude in [-90, 90], longitude in [-180, 180]
InLatRange(x) == ~x.nan /\ (x.w < 90 \/ (x.w = 90 /\ x.f = 0))
InLngRange(x) == ~x.nan /\ (x.w < 180 \/ (x.w = 180 /\ x.f = 0))

\* C15: in every reachable state of the session the working position has its
\* latitude in [-90, 90] and its longitude in [-180, 180].
C15_InRange == InLatRange(currentGps["lat"]) /\ InLngRange(currentGps["lng"])

\* C16: at most one save is between its start (the click) and its completion
\* (the end of handleSaveExif) at any time.
C16_OneEncode == Cardinality(pending) <= 1

\* a step in which a FileReader's onload ran
LoadStep == readers' # readers /\ readers' \subseteq readers

\* C17: when an image finishes loading and its decoded metadata has a
\* position, the pin and the camera are set to it; when it has none, pin and
\* camera stay as they were.
C17_LoadMovesPin ==
    [][ LoadStep =>
          IF Has(image'.metadata, "gps")
          THEN currentGps' = image'.metadata["gps"] /\ mapCenter' = image'.metadata["gps"]
          ELSE currentGps' = currentGps /\ mapCenter' = mapCenter ]_vars

\* C18: a map click or pin drag changes only the pin's latitude and
\* longitude: the pin's altitude, the camera and the image stay; the camera
\* changes only on a manual numeric edit, an image load with a position, a
\* recenter (camera := pin) or a reset (pin, camera := default, image := none).
C18_MapFrame ==
    [][ /\ \A point \in MapPoints :
              HandleMapInteraction(point.lat, point.lng) =>
                  /\ currentGps'["lat"] = point.lat /\ currentGps'["lng"] = point.lng
                  /\ currentGps'["altitude"] = currentGps["altitude"]
                  /\ mapCenter' = mapCenter
                  /\ image' = image
        /\ mapCenter' # mapCenter =>
              \/ HandleManualChange
              \/ LoadStep /\ Has(image'.metadata, "gps") /\ mapCenter' = image'.metadata["gps"]
              \/ mapCenter' = currentGps /\ currentGps' = currentGps /\ image' = image
              \/ mapCenter' = DEFAULT_GPS /\ currentGps' = DEFAULT_GPS /\ image' = NoImage ]_vars

\* the pin of a loaded image moved by a click: its altitude is the image's,
\* the camera still looks at the image's position
C18_Witness ==
    /\ Mounted /\ Has(image.metadata, "gps")
    /\ \E point \in MapPoints :
           currentGps = [image.metadata["gps"] EXCEPT !.lat = point.lat, !.lng = point.lng]
    /\ currentGps["altitude"] = Alt(-(1250 * Fine))
    /\ mapCenter = image.metadata["gps"]
    /\ mapCenter # currentGps

\* C19: whenever a download is offered, the position in the offered file is
\* the working position (to the precision of the tags).
C19_OfferedMatchesPin ==
    editor.downloadUrl.present =>
        LET offered == parseExifData(editor.downloadUrl.blob).value
        IN  /\ Has(offered, "gps")
            /\ Within(offered["gps"].lat, currentGps["lat"], RoundTripTol)
            /\ Within(offered["gps"].lng, currentGps["lng"], RoundTripTol)

====
